---- MODULE Spec2Model ----
(***************************************************************************)
(* Model of the session stores of dxp-axum-session.                        *)
(*                                                                         *)
(* MemoryPool (src/src/memory_pool.rs) keeps two hash maps, each behind    *)
(* its own std::sync::RwLock:                                              *)
(*   entries : id -> SessionValue {id, session, expires}                   *)
(*   expires : expiry second -> Vec of ids                                 *)
(* The trait methods contain no await point, so a call runs to completion  *)
(* on its thread and can only be interleaved with calls of other threads   *)
(* where it acquires a lock.  Every guard lives until the method returns.  *)
(* One action models one such atomic segment of a method.                  *)
(* The four reads hold entries.read() for one lookup and wait for nothing  *)
(* while they hold it, so each is one action, enabled when no writer holds *)
(* the lock.  No method can panic while it holds a guard, so in these      *)
(* behaviours no lock is poisoned and every write()/read() returns Ok.     *)
(***************************************************************************)
EXTENDS Integers, Sequences, FiniteSets, TLC

\* ------------------------------------------------------------ bounds
\* latest second the clock reaches
MaxTime == 3
\* the convertible expiry second the callers pass to store
Expiry == 2
\* longest bucket a store call is still started on
MaxBucketLen == 2
\* last second chrono converts (scaled)
MaxTimestamp == 5

\* ------------------------------------------------------------ inputs
\* threads of the host that call into the pool
Threads == {"t1", "t2"}
\* session ids
Ids == {"a", "b"}
\* serialized session payloads
Payloads == {"p", "q"}
\* absent value: Option::None, no lock holder, no argument
None == "none"
\* DateTime::from_timestamp returns None outside chrono's range of seconds
\* (-8334601315200 .. 8210266876799); the range is scaled down to
\* MinTimestamp..MaxTimestamp, which holds every clock value and every
\* convertible expiry of the model
MinTimestamp == 0 - MaxTimestamp
\* an i64 outside that range, as i64::MAX is
BadExpiry == MaxTimestamp + 2
\* the expires: i64 arguments the callers pass
ExpiryInputs == {Expiry, BadExpiry}

VARIABLES
    entries,    \* MemoryPool.entries: function, DOMAIN = keys of the map
    expires,    \* MemoryPool.expires: function, DOMAIN = keys of the map
    holder,     \* write-lock holder of each RwLock, or None
    now,        \* Utc::now().timestamp()
    pc,         \* per thread: where its current call stands
    local,      \* per thread: the locals of its current call
    last,       \* history: the call that returned last, if no call changed a map since
    reported,   \* history: ids a sweep returned and no store was called for since
    live,       \* history: per id, the arguments of the last store call that
                \* passed a future expiry, until the next store, delete_one_by_id
                \* or delete_all call for the id starts
    present,    \* history: ids a returned store call stored and no returned
                \* delete_one_by_id, delete_all or delete_by_expiry removed since
    stored,     \* history: ids store was called for (kept by SpecOnce only)
    table,      \* DbPool: the rows of the sessions table, id -> [session, expires];
                \* expires is an Option: {} is NULL, {e} is the timestamp e
    schema,     \* DbPool: what created the sessions table: "none", "initiate"
                \* or "migration"
    dblocal,    \* DbPool: the locals of the delete_by_expiry call in progress
    dblast,     \* history: the DbPool call that returned last
    poisoned,   \* per RwLock: a thread panicked while it held the write guard
    lasterr     \* history: the failed lock acquisition the last step was, if it was one

\* the state of the durable backend
dbvars == <<table, schema, dblocal, dblast>>

\* the state of lock poisoning
faults == <<poisoned, lasterr>>

\* the variables the MemoryPool actions do not mention
others == <<stored, dbvars, faults>>

vars == <<entries, expires, holder, now, pc, local, last, reported, live, present,
          stored, table, schema, dblocal, dblast, poisoned, lasterr>>

\* ------------------------------------------------------------ helpers
Range(s) == {s[i] : i \in 1..Len(s)}

RECURSIVE Concat(_, _)
\* flat_map(|(_, v)| v.clone()) over the buckets keys[1], keys[2], ...
Concat(m, keys) ==
    IF keys = <<>> THEN <<>> ELSE m[Head(keys)] \o Concat(m, Tail(keys))

\* the orders in which a HashMap iterator can visit the keys S
Orders(S) ==
    {o \in [1..Cardinality(S) -> S] : \A i, j \in 1..Cardinality(S) : i # j => o[i] # o[j]}

\* Vec::retain(|e| e != id)
Without(s, id) == SelectSeq(s, LAMBDA e : e # id)

\* an expiry argument DateTime::from_timestamp converts
Convertible(e) == MinTimestamp <= e /\ e <= MaxTimestamp

\* the expiry recorded as it was given
QuantizeKeep(e) == e

\* store lines 75-78: from_timestamp(expires, 0) ... .unwrap_or(0)
Quantize(e) == IF MinTimestamp <= e /\ e <= MaxTimestamp THEN e ELSE 0

\* entry(k).or_insert(v) in place of insert: a present key keeps its value
InsertIfAbsent(m, k, v) == [x \in DOMAIN m \cup {k} |-> IF x \in DOMAIN m THEN m[x] ELSE v]

\* insert into a map rebuilt from the new record: the other records are lost
InsertAlone(m, k, v) == [x \in {k} |-> v]

\* entries.insert(k, v), line 90: a present key gets the new value
Insert(m, k, v) == [x \in DOMAIN m \cup {k} |-> IF x = k THEN v ELSE m[x]]

\* retain/remove that removes nothing
RestrictNothing(m, keep) == m

\* HashMap::retain by a predicate on keys, given as the set of keys kept
Restrict(m, keep) == [x \in DOMAIN m \cap keep |-> m[x]]

\* expires.entry(k).or_default().push(id), line 96
Push(m, k, id) ==
    [x \in DOMAIN m \cup {k} |->
        IF x = k THEN Append(IF k \in DOMAIN m THEN m[k] ELSE <<>>, id) ELSE m[x]]

\* and_modify that clears the bucket: the other ids of the bucket go too
PruneBucket(m, k, id) ==
    [x \in DOMAIN m |-> IF x = k THEN <<>> ELSE m[x]]

\* expires.entry(k).and_modify(|v| v.retain(|e| e != id)), lines 123-125:
\* a missing bucket is not created
Prune(m, k, id) ==
    [x \in DOMAIN m |-> IF x = k THEN Without(m[x], id) ELSE m[x]]

\* Due with the bound off by one second: the bucket of second t-1 is not collected
DueOffByOne(k, t) == k < t - 1

\* line 44: the buckets a sweep at second t collects
Due(k, t) == k < t

\* retain that keeps every bucket: the collected buckets stay in the map
KeptAll(k, t) == TRUE

\* line 47: the buckets a sweep at second t keeps
Kept(k, t) == k >= t

\* lines 80-84: the SessionValue store builds
SessionValue(id, session, expiry) == [id |-> id, session |-> session, expires |-> expiry]

\* the lock a thread at pc p is about to acquire while it holds the other one
Waits(p) ==
    CASE p \in {"store_expires", "delete_expires", "clear_expires"} -> "expires"
      [] p = "sweep_entries" -> "entries"
      [] OTHER -> None

\* the empty HashMap
EmptyMap == [x \in {} |-> None]

\* clear that leaves the map as it is
ClearNothing(m) == m

\* HashMap::clear, lines 146 and 151
Clear(m) == EmptyMap

\* locals of a thread that is in no call
NoLocal == [id |-> None, session |-> None, expires |-> 0, expiry |-> 0,
            now |-> 0, expired_entries |-> <<>>, count0 |-> 0, again |-> FALSE,
            future |-> FALSE, afterAll |-> FALSE]

\* no call has returned since the last mutation
NoCall == [op |-> "none", id |-> None, session |-> None, expires |-> 0,
           ret |-> None, now |-> 0, removed |-> {}, twice |-> {},
           count0 |-> 0, again |-> FALSE, afterAll |-> FALSE]

\* the last step was not a failed lock acquisition
NoErr == [op |-> "none", lock |-> None]

\* no store call with a future expiry is on record for an id
NotLive == [session |-> None, expires |-> 0]

\* ------------------------------------------------------------ reads
\* the four reads take entries.read() only: they run when no writer holds it

\* load lines 107-109
load(id) == IF id \in DOMAIN entries THEN entries[id].session ELSE None

\* exists line 137
exists(id) == id \in DOMAIN entries

\* get_ids line 161: the keys, in the map's order; no key occurs twice
get_ids == DOMAIN entries

\* count lines 60-64
count == Cardinality(DOMAIN entries)

\* ------------------------------------------------------------ DbPool
\* src/src/db_pool.rs.  Each method sends its statements to the database one
\* after the other; a statement is atomic.  The table is created either by
\* DbPool::initiate (expires NOT NULL, db_pool.rs lines 45-48) or by the
\* migration (expires NULL, m20240912_321949_session.rs line 24).
\* Utc::now() in a filter is the clock second t plus a sub-second part;
\* sub says whether that part is positive.  Stored expiries are whole seconds.

\* no DbPool call has returned since the last call began
NoDbCall == [op |-> "none", ok |-> TRUE, ret |-> None, removed |-> {}]

\* no delete_by_expiry call is between its select and its delete
NoDbLocal == [busy |-> FALSE, expired_ids |-> {}, sub |-> FALSE]

\* store lines 183-184: from_timestamp(expires, 0), None when out of range
DbTimestamp(e) == IF Convertible(e) THEN {e} ELSE {}

\* Column::Expires.is_null()
IsNull(row) == row.expires = {}

\* Column::Expires.gt(Utc::now()): NULL compares as false
ExpiresGt(row, t) == \E x \in row.expires : x > t

\* Column::Expires.lt(Utc::now()): NULL compares as false
ExpiresLt(row, t, sub) == \E x \in row.expires : x < t \/ (x = t /\ sub)

\* store lines 192-200: the insert fails when it puts NULL in a NOT NULL column
DbStoreOk(e) == schema = "migration" \/ DbTimestamp(e) # {}

\* store lines 186-200: insert, on conflict update expires and session
DbStore(tbl, id, session, e) ==
    IF DbStoreOk(e)
    THEN [x \in DOMAIN tbl \cup {id} |->
             IF x = id THEN [session |-> session, expires |-> DbTimestamp(e)] ELSE tbl[x]]
    ELSE tbl

\* load lines 223-238
DbLoad(tbl, id, t) ==
    IF id \in DOMAIN tbl /\ (IsNull(tbl[id]) \/ ExpiresGt(tbl[id], t))
    THEN tbl[id].session ELSE None

\* exists lines 276-297
DbExists(tbl, id, t) == id \in DOMAIN tbl /\ ExpiresGt(tbl[id], t)

\* get_ids lines 316-326
DbGetIds(tbl, t) == {i \in DOMAIN tbl : IsNull(tbl[i]) \/ ExpiresGt(tbl[i], t)}

\* count lines 153-165
DbCount(tbl) == Cardinality(DOMAIN tbl)

\* delete_one_by_id lines 258-262
DbDeleteOne(tbl, id) == [x \in DOMAIN tbl \ {id} |-> tbl[x]]

\* delete_by_expiry lines 107-115 and 131: the ids the select returns
DbSelectExpired(tbl, t, sub) ==
    {i \in DOMAIN tbl : IsNull(tbl[i]) \/ ExpiresLt(tbl[i], t, sub)}

\* delete_by_expiry lines 133-137: the rows the delete leaves
DbDeleteExpired(tbl, t, sub) ==
    [x \in {i \in DOMAIN tbl : ~ExpiresLt(tbl[i], t, sub)} |-> tbl[x]]

Init ==
    /\ entries = EmptyMap
    /\ expires = EmptyMap
    /\ holder = [entries |-> None, expires |-> None]
    /\ now = 0
    /\ pc = [t \in Threads |-> "idle"]
    /\ local = [t \in Threads |-> NoLocal]
    /\ last = NoCall
    /\ reported = {}
    /\ live = [i \in Ids |-> NotLive]
    /\ present = {}
    /\ stored = {}
    /\ table = EmptyMap
    /\ schema = "none"
    /\ dblocal = NoDbLocal
    /\ dblast = NoDbCall
    /\ poisoned = [entries |-> FALSE, expires |-> FALSE]
    /\ lasterr = NoErr

\* the clock advances by one second
Tick ==
    /\ now < MaxTime
    /\ now' = now + 1
    /\ UNCHANGED <<entries, expires, holder, pc, local, last, reported, live, present>>

\* ------------------------------------------------------------ store
\* lines 75-90: convert the expiry, lock entries, insert the record
StoreEntries(t, id, session, e) ==
    /\ pc[t] = "idle"
    /\ holder.entries = None
    /\ LET expiry == Quantize(e) IN
       /\ expiry \in DOMAIN expires => Len(expires[expiry]) < MaxBucketLen
       /\ entries' = Insert(entries, id, SessionValue(id, session, expiry))
       /\ local' = [local EXCEPT ![t] =
              [NoLocal EXCEPT !.id = id, !.session = session, !.expires = e,
                              !.expiry = expiry, !.future = (e > now),
                              !.again = (last.op = "store" /\ last.id = id),
                              !.count0 = IF last.op = "store" /\ last.id = id
                                         THEN count ELSE 0]]
    /\ holder' = [holder EXCEPT !.entries = t]
    /\ pc' = [pc EXCEPT ![t] = "store_expires"]
    /\ last' = NoCall
    /\ reported' = reported \ {id}
    /\ live' = [live EXCEPT ![id] = NotLive]
    /\ UNCHANGED <<expires, now, present>>

\* lines 92-98: lock expires, push the id on the bucket, return Ok(()), drop both guards
StoreExpires(t) ==
    /\ pc[t] = "store_expires"
    /\ holder.expires = None
    /\ expires' = Push(expires, local[t].expiry, local[t].id)
    /\ holder' = [holder EXCEPT !.entries = None]
    /\ pc' = [pc EXCEPT ![t] = "idle"]
    /\ last' = [NoCall EXCEPT !.op = "store", !.id = local[t].id,
                              !.session = local[t].session, !.expires = local[t].expires,
                              !.count0 = local[t].count0, !.again = local[t].again]
    /\ live' = [live EXCEPT ![local[t].id] =
                   IF local[t].future
                   THEN [session |-> local[t].session, expires |-> local[t].expires]
                   ELSE NotLive]
    /\ present' = present \cup {local[t].id}
    /\ local' = [local EXCEPT ![t] = NoLocal]
    /\ UNCHANGED <<entries, now, reported>>

\* ------------------------------------------------------------ delete_by_expiry
\* lines 37-47: lock expires, read the clock, collect the ids of the buckets
\* keyed before now in the map's iteration order, keep the other buckets
SweepExpires(t) ==
    /\ pc[t] = "idle"
    /\ holder.expires = None
    /\ \E order \in Orders({k \in DOMAIN expires : Due(k, now)}) :
          local' = [local EXCEPT ![t] =
              [NoLocal EXCEPT !.now = now, !.expired_entries = Concat(expires, order),
                              !.again = (last.op = "delete_by_expiry" /\ last.now = now),
                              !.afterAll = (last.op = "delete_all"),
                              !.count0 = IF last.op = "delete_all" THEN last.count0 ELSE 0]]
    /\ expires' = Restrict(expires, {k \in DOMAIN expires : Kept(k, now)})
    /\ holder' = [holder EXCEPT !.expires = t]
    /\ pc' = [pc EXCEPT ![t] = "sweep_entries"]
    /\ last' = NoCall
    /\ UNCHANGED <<entries, now, reported, live, present>>

\* lines 49-55: lock entries, drop every record whose id was collected,
\* return the collected ids, drop both guards
SweepEntries(t) ==
    /\ pc[t] = "sweep_entries"
    /\ holder.entries = None
    /\ LET expired_entries == local[t].expired_entries
           kept == {i \in DOMAIN entries : entries[i].id \notin Range(expired_entries)}
       IN /\ entries' = Restrict(entries, kept)
          /\ last' = [NoCall EXCEPT !.op = "delete_by_expiry", !.ret = expired_entries,
                                    !.now = local[t].now, !.again = local[t].again,
                                    !.afterAll = local[t].afterAll,
                                    !.count0 = local[t].count0,
                                    !.removed = {entries[i] : i \in DOMAIN entries \ kept},
                                    !.twice = Range(expired_entries) \cap reported]
          /\ reported' = reported \cup Range(expired_entries)
          /\ present' = present \ Range(expired_entries)
    /\ holder' = [holder EXCEPT !.expires = None]
    /\ pc' = [pc EXCEPT ![t] = "idle"]
    /\ local' = [local EXCEPT ![t] = NoLocal]
    /\ UNCHANGED <<expires, now, live>>

\* ------------------------------------------------------------ delete_one_by_id
\* lines 114-118 and 128: lock entries, remove the record; when there was
\* none, return Ok(()) and drop the guard
DeleteOneEntries(t, id) ==
    /\ pc[t] = "idle"
    /\ holder.entries = None
    /\ entries' = Restrict(entries, DOMAIN entries \ {id})
    /\ IF id \in DOMAIN entries
       THEN /\ holder' = [holder EXCEPT !.entries = t]
            /\ pc' = [pc EXCEPT ![t] = "delete_expires"]
            /\ local' = [local EXCEPT ![t] =
                   [NoLocal EXCEPT !.id = id, !.expiry = entries[id].expires]]
            /\ last' = NoCall
            /\ UNCHANGED present
       ELSE /\ last' = [NoCall EXCEPT !.op = "delete_one_by_id", !.id = id,
                       !.again = (last.op = "delete_one_by_id" /\ last.id = id)]
            /\ present' = present \ {id}
            /\ UNCHANGED <<holder, pc, local>>
    /\ live' = [live EXCEPT ![id] = NotLive]
    /\ UNCHANGED <<expires, now, reported>>

\* lines 119-128: lock expires, drop the id from the bucket of the removed
\* record's expiry, return Ok(()), drop both guards
DeleteOneExpires(t) ==
    /\ pc[t] = "delete_expires"
    /\ holder.expires = None
    /\ expires' = Prune(expires, local[t].expiry, local[t].id)
    /\ holder' = [holder EXCEPT !.entries = None]
    /\ pc' = [pc EXCEPT ![t] = "idle"]
    /\ last' = [NoCall EXCEPT !.op = "delete_one_by_id", !.id = local[t].id]
    /\ present' = present \ {local[t].id}
    /\ local' = [local EXCEPT ![t] = NoLocal]
    /\ UNCHANGED <<entries, now, reported, live>>

\* ------------------------------------------------------------ delete_all
\* lines 142-146: lock entries, clear the map
DeleteAllEntries(t) ==
    /\ pc[t] = "idle"
    /\ holder.entries = None
    /\ entries' = Clear(entries)
    /\ holder' = [holder EXCEPT !.entries = t]
    /\ pc' = [pc EXCEPT ![t] = "clear_expires"]
    /\ local' = [local EXCEPT ![t] = [NoLocal EXCEPT !.count0 = count]]
    /\ last' = NoCall
    /\ live' = [i \in Ids |-> NotLive]
    /\ UNCHANGED <<expires, now, reported, present>>

\* lines 147-152: lock expires, clear the map, return Ok(()), drop both guards
DeleteAllExpires(t) ==
    /\ pc[t] = "clear_expires"
    /\ holder.expires = None
    /\ expires' = Clear(expires)
    /\ holder' = [holder EXCEPT !.entries = None]
    /\ pc' = [pc EXCEPT ![t] = "idle"]
    /\ last' = [NoCall EXCEPT !.op = "delete_all", !.count0 = local[t].count0]
    /\ present' = {}
    /\ local' = [local EXCEPT ![t] = NoLocal]
    /\ UNCHANGED <<entries, now, reported, live>>

\* ------------------------------------------------------------ the read calls
\* load lines 102-110
Load(t, id) ==
    /\ pc[t] = "idle"
    /\ holder.entries = None
    /\ last' = [NoCall EXCEPT !.op = "load", !.id = id, !.ret = load(id)]
    /\ UNCHANGED <<entries, expires, holder, now, pc, local, reported, live, present>>

\* exists lines 132-138
Exists(t, id) ==
    /\ pc[t] = "idle"
    /\ holder.entries = None
    /\ last' = [NoCall EXCEPT !.op = "exists", !.id = id, !.ret = exists(id)]
    /\ UNCHANGED <<entries, expires, holder, now, pc, local, reported, live, present>>

\* get_ids lines 156-162
GetIds(t) ==
    /\ pc[t] = "idle"
    /\ holder.entries = None
    /\ last' = [NoCall EXCEPT !.op = "get_ids", !.ret = get_ids]
    /\ UNCHANGED <<entries, expires, holder, now, pc, local, reported, live, present>>

\* count lines 59-65
Count(t) ==
    /\ pc[t] = "idle"
    /\ holder.entries = None
    /\ last' = [NoCall EXCEPT !.op = "count", !.ret = count]
    /\ UNCHANGED <<entries, expires, holder, now, pc, local, reported, live, present>>

\* ------------------------------------------------------------ DbPool calls
\* initiate lines 31-103: create table if not exists, expires NOT NULL
DbInitiate ==
    /\ ~dblocal.busy
    /\ schema' = IF schema = "none" THEN "initiate" ELSE schema
    /\ dblast' = [NoDbCall EXCEPT !.op = "initiate"]
    /\ UNCHANGED <<table, dblocal>>

\* Migration::up, m20240912_321949_session.rs lines 9-42: create table if
\* not exists, expires NULL
MigrationUp ==
    /\ ~dblocal.busy
    /\ schema' = IF schema = "none" THEN "migration" ELSE schema
    /\ dblast' = [NoDbCall EXCEPT !.op = "migration"]
    /\ UNCHANGED <<table, dblocal>>

\* store lines 172-219
DbStoreCall(id, session, e) ==
    /\ schema # "none" /\ ~dblocal.busy
    /\ table' = DbStore(table, id, session, e)
    /\ dblast' = [NoDbCall EXCEPT !.op = "store", !.ok = DbStoreOk(e)]
    /\ UNCHANGED <<schema, dblocal>>

\* load lines 222-238
DbLoadCall(id) ==
    /\ schema # "none" /\ ~dblocal.busy
    /\ dblast' = [NoDbCall EXCEPT !.op = "load", !.ret = DbLoad(table, id, now)]
    /\ UNCHANGED <<table, schema, dblocal>>

\* exists lines 275-298
DbExistsCall(id) ==
    /\ schema # "none" /\ ~dblocal.busy
    /\ dblast' = [NoDbCall EXCEPT !.op = "exists", !.ret = DbExists(table, id, now)]
    /\ UNCHANGED <<table, schema, dblocal>>

\* get_ids lines 315-343
DbGetIdsCall ==
    /\ schema # "none" /\ ~dblocal.busy
    /\ dblast' = [NoDbCall EXCEPT !.op = "get_ids", !.ret = DbGetIds(table, now)]
    /\ UNCHANGED <<table, schema, dblocal>>

\* count lines 152-166
DbCountCall ==
    /\ schema # "none" /\ ~dblocal.busy
    /\ dblast' = [NoDbCall EXCEPT !.op = "count", !.ret = DbCount(table)]
    /\ UNCHANGED <<table, schema, dblocal>>

\* delete_one_by_id lines 257-272
DbDeleteOneCall(id) ==
    /\ schema # "none" /\ ~dblocal.busy
    /\ table' = DbDeleteOne(table, id)
    /\ dblast' = [NoDbCall EXCEPT !.op = "delete_one_by_id"]
    /\ UNCHANGED <<schema, dblocal>>

\* delete_all lines 301-312
DbDeleteAllCall ==
    /\ schema # "none" /\ ~dblocal.busy
    /\ table' = Clear(table)
    /\ dblast' = [NoDbCall EXCEPT !.op = "delete_all"]
    /\ UNCHANGED <<schema, dblocal>>

\* delete_by_expiry lines 107-131: select the ids of the rows with NULL
\* expiry or expiry before Utc::now()
DbSweepSelect(sub) ==
    /\ schema # "none" /\ ~dblocal.busy
    /\ dblocal' = [busy |-> TRUE, expired_ids |-> DbSelectExpired(table, now, sub),
                   sub |-> sub]
    /\ dblast' = NoDbCall
    /\ UNCHANGED <<table, schema>>

\* delete_by_expiry lines 133-148: delete the rows with expiry before a
\* second, later Utc::now(), return the selected ids
DbSweepDelete(sub) ==
    /\ dblocal.busy
    /\ dblocal.sub => sub
    /\ table' = DbDeleteExpired(table, now, sub)
    /\ dblast' = [NoDbCall EXCEPT !.op = "delete_by_expiry", !.ret = dblocal.expired_ids,
                       !.removed = DOMAIN table \ DOMAIN DbDeleteExpired(table, now, sub)]
    /\ dblocal' = NoDbLocal
    /\ UNCHANGED schema

\* a MemoryPool call running alone: nothing else changes
Mem(A) == A /\ UNCHANGED others

\* every step of a call but the first step of store
Steps ==
    \/ Mem(Tick)
    \/ \E t \in Threads : Mem(StoreExpires(t))
    \/ \E t \in Threads : Mem(SweepExpires(t))
    \/ \E t \in Threads : Mem(SweepEntries(t))
    \/ \E t \in Threads, id \in Ids : Mem(DeleteOneEntries(t, id))
    \/ \E t \in Threads : Mem(DeleteOneExpires(t))
    \/ \E t \in Threads : Mem(DeleteAllEntries(t))
    \/ \E t \in Threads : Mem(DeleteAllExpires(t))
    \/ \E t \in Threads, id \in Ids : Mem(Load(t, id))
    \/ \E t \in Threads, id \in Ids : Mem(Exists(t, id))
    \/ \E t \in Threads : Mem(GetIds(t))
    \/ \E t \in Threads : Mem(Count(t))

Next ==
    \/ \E t \in Threads, id \in Ids, s \in Payloads, e \in ExpiryInputs :
          Mem(StoreEntries(t, id, s, e))
    \/ Steps

Spec == Init /\ [][Next]_vars

\* ------------------------------------------------------------ every id stored once
\* store called for an id it was never called for before
StoreOnce(t, id, session, e) ==
    /\ id \notin stored
    /\ StoreEntries(t, id, session, e)
    /\ stored' = stored \cup {id}
    /\ UNCHANGED <<dbvars, faults>>

\* the callers store every id at most once
NextOnce ==
    \/ \E t \in Threads, id \in Ids, s \in Payloads, e \in ExpiryInputs :
          StoreOnce(t, id, s, e)
    \/ Steps

SpecOnce == Init /\ [][NextOnce]_vars

\* the thread of a specification with one caller
Caller == "t1"

\* ------------------------------------------------------------ poisoned locks
\* One caller; the panic that poisons a lock happens on another thread.
\* RwLock::write and RwLock::read wait for the lock and then return Err when
\* a thread panicked while it held the write guard.  Every acquisition of
\* MemoryPool maps the Err to DatabaseError::GenericCreateError and returns
\* it with `?`, which drops the guards the call holds.

\* a thread panics while it holds the write guard of a lock; unwinding
\* releases the lock and leaves it poisoned (lines 18-19)
Poison(lock) ==
    /\ holder[lock] = None
    /\ ~poisoned[lock]
    /\ poisoned' = [poisoned EXCEPT ![lock] = TRUE]
    /\ lasterr' = NoErr
    /\ UNCHANGED <<entries, expires, holder, now, pc, local, last, reported, live,
                   present, stored, dbvars>>

\* the lock a call acquires first, lines 37-40, 60-63, 86-89, 103-106,
\* 114-117, 133-136, 142-145, 157-160
FirstLock(op) == IF op = "delete_by_expiry" THEN "expires" ELSE "entries"

\* the calls that acquire a lock
LockingOps == {"store", "load", "exists", "count", "get_ids", "delete_one_by_id",
               "delete_all", "delete_by_expiry"}

\* the call a thread is in the middle of
OpAt(p) ==
    CASE p = "store_expires" -> "store"
      [] p = "sweep_entries" -> "delete_by_expiry"
      [] p = "delete_expires" -> "delete_one_by_id"
      [] p = "clear_expires" -> "delete_all"
      [] OTHER -> "none"

\* the first acquisition of a call fails: map_err(..)? returns the error
FirstAcquireFails(t, op) ==
    /\ pc[t] = "idle"
    /\ holder[FirstLock(op)] = None
    /\ poisoned[FirstLock(op)]
    /\ lasterr' = [op |-> op, lock |-> FirstLock(op)]
    /\ last' = NoCall
    /\ UNCHANGED <<entries, expires, holder, now, pc, local, reported, live,
                   present, stored, dbvars, poisoned>>

\* the failing call undoes what it did to the other index
SecondAcquireRollsBack(t) ==
    /\ Waits(pc[t]) # None
    /\ holder[Waits(pc[t])] = None
    /\ poisoned[Waits(pc[t])]
    /\ lasterr' = [op |-> OpAt(pc[t]), lock |-> Waits(pc[t])]
    /\ entries' = Restrict(entries, DOMAIN entries \ {local[t].id})
    /\ holder' = [l \in DOMAIN holder |-> IF holder[l] = t THEN None ELSE holder[l]]
    /\ pc' = [pc EXCEPT ![t] = "idle"]
    /\ local' = [local EXCEPT ![t] = NoLocal]
    /\ last' = NoCall
    /\ UNCHANGED <<expires, now, reported, live, present, stored, dbvars, poisoned>>

\* the second acquisition of a call fails, lines 49-52, 92-95, 119-122,
\* 147-150: map_err(..)? returns the error and drops the first guard
SecondAcquireFails(t) ==
    /\ Waits(pc[t]) # None
    /\ holder[Waits(pc[t])] = None
    /\ poisoned[Waits(pc[t])]
    /\ lasterr' = [op |-> OpAt(pc[t]), lock |-> Waits(pc[t])]
    /\ holder' = [l \in DOMAIN holder |-> IF holder[l] = t THEN None ELSE holder[l]]
    /\ pc' = [pc EXCEPT ![t] = "idle"]
    /\ local' = [local EXCEPT ![t] = NoLocal]
    /\ last' = NoCall
    /\ UNCHANGED <<entries, expires, now, reported, live, present, stored, dbvars,
                   poisoned>>

\* initiate lines 31-33: Ok(()) without touching a lock
Initiate(t) ==
    /\ pc[t] = "idle"
    /\ last' = [NoCall EXCEPT !.op = "initiate"]
    /\ lasterr' = NoErr
    /\ UNCHANGED <<entries, expires, holder, now, pc, local, reported, live,
                   present, stored, dbvars, poisoned>>

\* auto_handles_expiry lines 165-167: false without touching a lock
AutoHandlesExpiry(t) ==
    /\ pc[t] = "idle"
    /\ last' = [NoCall EXCEPT !.op = "auto_handles_expiry", !.ret = FALSE]
    /\ lasterr' = NoErr
    /\ UNCHANGED <<entries, expires, holder, now, pc, local, reported, live,
                   present, stored, dbvars, poisoned>>

\* a step that acquires a lock that is not poisoned
Sound(lock, A) ==
    /\ ~poisoned[lock]
    /\ A
    /\ lasterr' = NoErr
    /\ UNCHANGED <<poisoned, stored, dbvars>>

\* the payload plays no part in acquiring a lock
OnePayload == {"p"}

NextPoison ==
    \/ Mem(Tick)
    \/ \E lock \in {"entries", "expires"} : Poison(lock)
    \/ \E op \in LockingOps : FirstAcquireFails(Caller, op)
    \/ SecondAcquireFails(Caller)
    \/ Initiate(Caller) \/ AutoHandlesExpiry(Caller)
    \/ \E id \in Ids, s \in OnePayload, e \in ExpiryInputs :
          Sound("entries", StoreEntries(Caller, id, s, e))
    \/ Sound("expires", StoreExpires(Caller))
    \/ Sound("expires", SweepExpires(Caller))
    \/ Sound("entries", SweepEntries(Caller))
    \/ Sound("expires", DeleteOneExpires(Caller))
    \/ Sound("entries", DeleteAllEntries(Caller))
    \/ Sound("expires", DeleteAllExpires(Caller))
    \/ Sound("entries", GetIds(Caller))
    \/ Sound("entries", Count(Caller))
    \/ \E id \in Ids :
          \/ Sound("entries", DeleteOneEntries(Caller, id))
          \/ Sound("entries", Load(Caller, id))
          \/ Sound("entries", Exists(Caller, id))

SpecPoison == Init /\ [][NextPoison]_vars

\* ------------------------------------------------------------ side by side
\* One caller drives a MemoryPool and a DbPool with the same calls at the
\* same clock second; a call returns in both before the next one starts.

\* a step inside a MemoryPool call that the DbPool call does not match
MemStep(A) ==
    A /\ dblast' = NoDbCall /\ UNCHANGED <<stored, table, schema, dblocal, faults>>

\* a step of a MemoryPool call together with the matching DbPool step
Both(A, B) == A /\ B /\ UNCHANGED <<stored, faults>>

PairTick == pc[Caller] = "idle" /\ ~dblocal.busy /\ Tick /\ UNCHANGED others

\* the session layer calls initiate once, before any other call;
\* MemoryPool::initiate (line 31) does nothing and returns Ok(())
PairInitiate ==
    /\ pc[Caller] = "idle" /\ schema = "none"
    /\ DbInitiate
    /\ last' = [NoCall EXCEPT !.op = "initiate"]
    /\ UNCHANGED <<entries, expires, holder, now, pc, local, reported, live, present,
                   stored, faults>>

\* the application runs the migration before it uses either pool
PairMigrationUp ==
    /\ pc[Caller] = "idle" /\ schema = "none"
    /\ MigrationUp
    /\ last' = [NoCall EXCEPT !.op = "migration"]
    /\ UNCHANGED <<entries, expires, holder, now, pc, local, reported, live, present,
                   stored, faults>>

PairStoreBegin(id, session, e) ==
    schema # "none" /\ MemStep(StoreEntries(Caller, id, session, e))

PairStoreEnd ==
    Both(StoreExpires(Caller),
         DbStoreCall(local[Caller].id, local[Caller].session, local[Caller].expires))

PairSweepBegin == \E sub \in BOOLEAN : Both(SweepExpires(Caller), DbSweepSelect(sub))

PairSweepEnd == \E sub \in BOOLEAN : Both(SweepEntries(Caller), DbSweepDelete(sub))

PairDeleteOneAbsent(id) ==
    id \notin DOMAIN entries /\ Both(DeleteOneEntries(Caller, id), DbDeleteOneCall(id))

PairDeleteOneBegin(id) ==
    schema # "none" /\ id \in DOMAIN entries /\ MemStep(DeleteOneEntries(Caller, id))

PairDeleteOneEnd == Both(DeleteOneExpires(Caller), DbDeleteOneCall(local[Caller].id))

PairDeleteAllBegin == schema # "none" /\ MemStep(DeleteAllEntries(Caller))

PairDeleteAllEnd == Both(DeleteAllExpires(Caller), DbDeleteAllCall)

PairLoad(id) == Both(Load(Caller, id), DbLoadCall(id))

PairExists(id) == Both(Exists(Caller, id), DbExistsCall(id))

PairGetIds == Both(GetIds(Caller), DbGetIdsCall)

PairCount == Both(Count(Caller), DbCountCall)

NextPair ==
    \/ PairTick \/ PairInitiate \/ PairMigrationUp
    \/ \E id \in Ids, session \in Payloads, e \in ExpiryInputs :
          PairStoreBegin(id, session, e)
    \/ PairStoreEnd \/ PairSweepBegin \/ PairSweepEnd
    \/ \E id \in Ids :
          \/ PairDeleteOneAbsent(id) \/ PairDeleteOneBegin(id)
          \/ PairLoad(id) \/ PairExists(id)
    \/ PairDeleteOneEnd \/ PairDeleteAllBegin \/ PairDeleteAllEnd
    \/ PairGetIds \/ PairCount

SpecPair == Init /\ [][NextPair]_vars

\* ============================================================ claims

\* C1: a delete_by_expiry call never removes (and so never returns the id
\* of) a record whose expiry, at the time of the removal, is after the
\* second the sweep read from the clock.
C1_SweepSparesFutureExpiry ==
    last.op = "delete_by_expiry" => \A r \in last.removed : r.expires <= last.now

\* C2: no state is reached in which two calls each hold one of the two locks
\* and wait for the lock the other holds; every started call can complete.
C2_NoDeadlock ==
    ~ \E t, u \in Threads :
         /\ Waits(pc[t]) # None /\ holder[Waits(pc[t])] = u
         /\ Waits(pc[u]) # None /\ holder[Waits(pc[u])] = t

\* C3: whenever load can run, load(id) returns a payload only if id has a
\* record whose expiry is strictly after the current second.
C3_LoadOnlyUnexpired ==
    \A id \in Ids :
        (holder.entries = None /\ load(id) # None) =>
            (id \in DOMAIN entries /\ entries[id].expires > now)

\* C4: the list a delete_by_expiry call returns is exactly the set of ids
\* whose record the call removed from entries, each id once.
C4_SweepReturnsExactlyRemoved ==
    last.op = "delete_by_expiry" =>
        /\ Range(last.ret) = {r.id : r \in last.removed}
        /\ Len(last.ret) = Cardinality(Range(last.ret))

\* C5: a delete_by_expiry call returns no id that an earlier delete_by_expiry
\* call returned, unless store was called for the id in between.
C5_NoDoubleReport ==
    last.op = "delete_by_expiry" => last.twice = {}

\* C6 (as stated): after a delete_by_expiry call that read second now from
\* the clock, no record whose expiry is at or before now is left in entries.
C6_SweepRemovesAtOrBefore ==
    last.op = "delete_by_expiry" =>
        \A i \in DOMAIN entries : ~(entries[i].expires <= last.now)

\* C6 (amended): after a delete_by_expiry call that read second now from the
\* clock, no record whose expiry is strictly before now is left in entries.
C6_SweepRemovesBefore ==
    last.op = "delete_by_expiry" =>
        \A i \in DOMAIN entries : ~(entries[i].expires < last.now)

\* a sweep has removed a record and a record expiring in the sweep's second is left
C6_Witness ==
    /\ last.op = "delete_by_expiry"
    /\ last.removed # {}
    /\ \E i \in DOMAIN entries : entries[i].expires = last.now

\* C7: whenever exists can run, exists(id) is true only if id has a record
\* whose expiry is strictly after the current second.
C7_ExistsOnlyUnexpired ==
    \A id \in Ids :
        (holder.entries = None /\ exists(id)) =>
            (id \in DOMAIN entries /\ entries[id].expires > now)

\* C8: whenever get_ids can run, it returns exactly the ids whose record has
\* an expiry strictly after the current second.
C8_GetIdsOnlyUnexpired ==
    holder.entries = None =>
        get_ids = {i \in DOMAIN entries : entries[i].expires > now}

\* C9 (as stated): when store(id, p2, e2) returns right after a store for the
\* same id, id has one record, with payload p2 and expiry e2, and count() is
\* what it was after the first store.
C9_UpsertKeepsExpiry ==
    (last.op = "store" /\ last.again) =>
        /\ last.id \in DOMAIN entries
        /\ entries[last.id].session = last.session
        /\ entries[last.id].expires = last.expires
        /\ count = last.count0

\* C9 (amended): as C9, the expiry of the record being e2 when e2 converts to
\* a timestamp and 0 when it does not.
C9_UpsertQuantizedExpiry ==
    (last.op = "store" /\ last.again) =>
        /\ last.id \in DOMAIN entries
        /\ entries[last.id].session = last.session
        /\ Convertible(last.expires) => entries[last.id].expires = last.expires
        /\ ~Convertible(last.expires) => entries[last.id].expires = 0
        /\ count = last.count0

\* a second store for an id has returned, its expiry argument was not
\* convertible, and the other id has a record too
C9_Witness ==
    /\ last.op = "store" /\ last.again
    /\ ~Convertible(last.expires)
    /\ count = 2

\* C10: from the return of store(id, payload, e) with a convertible e in the
\* future until second e is reached or a store, delete_one_by_id or delete_all
\* call for id starts, load(id) returns payload and exists(id) is true
\* whenever they can run.
C10_RoundTrip ==
    \A id \in Ids :
        (/\ live[id].session # None
         /\ Convertible(live[id].expires)
         /\ live[id].expires > now
         /\ holder.entries = None) =>
            (load(id) = live[id].session /\ exists(id))

\* C11: when store was called at most once for every id, a delete_by_expiry
\* call at second t returns, each once, exactly the ids of the records whose
\* expiry is before t and removes them; a record stored with a (convertible)
\* expiry after t is still returned by load and listed by get_ids; and a
\* delete_by_expiry call following another one in the same second with no
\* call in between returns the empty list.  (Checked under SpecOnce.)
C11_SweepScenario ==
    last.op = "delete_by_expiry" =>
        /\ Range(last.ret) = {r.id : r \in last.removed}
        /\ Len(last.ret) = Cardinality(Range(last.ret))
        /\ \A r \in last.removed : r.expires < last.now
        /\ \A i \in DOMAIN entries : ~(entries[i].expires < last.now)
        /\ \A id \in Ids :
              (/\ live[id].session # None
               /\ Convertible(live[id].expires)
               /\ live[id].expires > last.now) =>
                  (load(id) = live[id].session /\ id \in get_ids)
        /\ last.again => last.ret = <<>>

\* the second of two sweeps in one second has returned, an earlier sweep
\* returned an id, and a record expiring later is left
C11_Witness ==
    /\ last.op = "delete_by_expiry" /\ last.again
    /\ reported # {}
    /\ \E i \in DOMAIN entries : entries[i].expires > last.now

\* C12: once every call of every thread has returned, count() is the number
\* of ids stored by the returned store calls minus those removed since by
\* delete calls, and each of these ids has its record: no store is lost,
\* however the calls of the threads interleaved.
C12_NoLostStore ==
    (\A t \in Threads : pc[t] = "idle") =>
        /\ present \subseteq DOMAIN entries
        /\ count = Cardinality(present)

\* both ids are stored, every call has returned, the last one a store
C12_Witness ==
    /\ \A t \in Threads : pc[t] = "idle"
    /\ last.op = "store"
    /\ present = Ids

\* C13: whenever count can run, count() is the number of ids stored and not
\* removed since by delete_one_by_id, delete_all or delete_by_expiry, expired
\* records included; and a step in which only time passes changes neither map.
C13_CountIgnoresExpiry ==
    /\ [](holder.entries = None => count = Cardinality(present))
    /\ [][now' # now => (entries' = entries /\ expires' = expires)]_vars

\* count has returned 2 while one of the two records was expired
C13_Witness ==
    /\ last.op = "count" /\ last.ret = 2
    /\ count = 2
    /\ \E i \in DOMAIN entries : entries[i].expires < now

\* C14: delete_one_by_id(id) removes the record of id and no other record,
\* and takes nothing but id out of the buckets; when id has no record the
\* call returns Ok at once and leaves both maps as they were, so the second
\* of two calls in a row is a no-op.
C14_DeleteOne ==
    [][\A t \in Threads :
          /\ \A id \in Ids :
                DeleteOneEntries(t, id) =>
                    /\ DOMAIN entries' = DOMAIN entries \ {id}
                    /\ \A i \in DOMAIN entries' : entries'[i] = entries[i]
                    /\ id \notin DOMAIN entries =>
                          /\ entries' = entries /\ expires' = expires
                          /\ pc'[t] = "idle" /\ last'.op = "delete_one_by_id"
          /\ DeleteOneExpires(t) =>
                /\ entries' = entries
                /\ DOMAIN expires' = DOMAIN expires
                /\ \A k \in DOMAIN expires :
                      Without(expires'[k], local[t].id) = Without(expires[k], local[t].id)
                /\ last'.op = "delete_one_by_id"
      ]_vars

\* the second of two delete_one_by_id calls in a row for one id has returned
\* and the other id still has its record and its bucket entry
C14_Witness ==
    /\ last.op = "delete_one_by_id" /\ last.again
    /\ \E i \in DOMAIN entries :
          /\ i # last.id
          /\ entries[i].expires \in DOMAIN expires
          /\ i \in Range(expires[entries[i].expires])

\* C15: when delete_all has returned, count() is 0, get_ids() is empty and
\* the expires map holds no bucket; and a delete_by_expiry call that follows
\* it with no other call in between returns the empty list at any second.
C15_DeleteAllClears ==
    /\ last.op = "delete_all" =>
          (count = 0 /\ get_ids = {} /\ DOMAIN expires = {})
    /\ (last.op = "delete_by_expiry" /\ last.afterAll) => last.ret = <<>>

\* a sweep has returned at a second after 1, right after a delete_all that
\* cleared two records
C15_Witness ==
    /\ last.op = "delete_by_expiry" /\ last.afterAll
    /\ last.count0 = 2
    /\ last.now > 1

\* C18 (I1): in every state with no call in flight, every id of entries is
\* in the bucket keyed by its record's expiry and in no other bucket.
C18_InvariantI1 ==
    (\A t \in Threads : pc[t] = "idle") =>
        \A i \in DOMAIN entries :
            /\ entries[i].expires \in DOMAIN expires
            /\ \A k \in DOMAIN expires :
                  i \in Range(expires[k]) <=> k = entries[i].expires

\* C19 (I2): in every state with no call in flight, every id in a bucket has
\* a record in entries whose expiry is the key of the bucket.
C19_InvariantI2 ==
    (\A t \in Threads : pc[t] = "idle") =>
        \A k \in DOMAIN expires : \A i \in Range(expires[k]) :
            i \in DOMAIN entries /\ entries[i].expires = k

\* C20 (I3): no bucket holds an id more than once.
C20_NoDuplicateInBucket ==
    \A k \in DOMAIN expires : Len(expires[k]) = Cardinality(Range(expires[k]))
\* C16: run side by side on the same calls at the same clock values, every
\* call returns the same result in the in-memory and in the durable backend
C16_SameResults ==
    (last.op # "none" /\ dblast.op = last.op) =>
        /\ dblast.ok
        /\ last.op \in {"load", "exists", "get_ids", "count"} => last.ret = dblast.ret
        /\ last.op = "delete_by_expiry" =>
               /\ Range(last.ret) = dblast.ret
               /\ Len(last.ret) = Cardinality(dblast.ret)

\* C17: in every table state the durable exists(id) is true exactly when the
\* durable load(id) returns a payload; a row with NULL expiry exists
C17_ExistsAgreesWithLoad ==
    \A id \in Ids :
        /\ DbExists(table, id, now) <=> DbLoad(table, id, now) # None
        /\ (id \in DOMAIN table /\ IsNull(table[id])) => DbExists(table, id, now)

\* C21: the durable delete_by_expiry returns exactly the ids of the rows it
\* deletes: no id of a NULL-expiry row, no id whose row is still in the
\* table, and no row deleted without its id being returned
C21_DbSweepReturnsExactlyDeleted ==
    dblast.op = "delete_by_expiry" =>
        /\ dblast.ret = dblast.removed
        /\ \A id \in dblast.ret : id \notin DOMAIN table

\* C23: an in-memory store with an expiry that cannot be converted succeeds
\* and records expiry 0; the next delete_by_expiry, at any clock value
\* greater than 0, removes the record and returns its id
C23_UnconvertibleIsEpochZero ==
    /\ []((last.op = "store" /\ ~Convertible(last.expires)) =>
              /\ last.id \in DOMAIN entries
              /\ entries[last.id].expires = 0
              /\ 0 \in DOMAIN expires
              /\ last.id \in Range(expires[0]))
    /\ [][\A t \in Threads :
              (/\ pc[t] = "idle" /\ pc'[t] = "sweep_entries"
               /\ last.op = "store" /\ ~Convertible(last.expires) /\ now > 0)
              => last.id \in Range(local'[t].expired_entries)]_vars
    /\ [][\A t \in Threads :
              (pc[t] = "sweep_entries" /\ pc'[t] = "idle") =>
                  /\ last'.op = "delete_by_expiry"
                  /\ last'.ret = local[t].expired_entries
                  /\ \A id \in Range(local[t].expired_entries) :
                         id \notin DOMAIN entries']_vars

\* a sweep at a clock value greater than 0 removed and returned a record
\* stored with expiry 0
C23_Witness ==
    /\ last.op = "delete_by_expiry" /\ last.now > 0
    /\ \E r \in last.removed : r.expires = 0 /\ r.id \in Range(last.ret)

\* C22: an in-memory call whose lock acquisition fails on a poisoned lock
\* returns the error at once, holding no lock and changing neither index: the
\* index behind the failed lock is untouched and what the call already did
\* to the other index stays (a store failing on the expires lock leaves its
\* record in entries and adds no bucket entry); initiate and
\* auto_handles_expiry never fail
C22_PoisonedAcquire ==
    /\ [][(lasterr' # NoErr /\ now' = now) =>
              /\ lasterr'.op \in LockingOps
              /\ poisoned[lasterr'.lock]
              /\ entries' = entries /\ expires' = expires
              /\ pc'[Caller] = "idle"
              /\ \A l \in DOMAIN holder : holder'[l] = None]_vars
    /\ [][(pc[Caller] = "store_expires" /\ lasterr' # NoErr) =>
              /\ lasterr' = [op |-> "store", lock |-> "expires"]
              /\ local[Caller].id \in DOMAIN entries'
              /\ entries'[local[Caller].id] =
                     SessionValue(local[Caller].id, local[Caller].session,
                                  local[Caller].expiry)
              /\ expires' = expires]_vars
    /\ [](last.op \in {"initiate", "auto_handles_expiry"} => lasterr = NoErr)

\* a store failed on the poisoned expires lock and left a record in entries
\* that no bucket names
C22_Witness ==
    /\ lasterr = [op |-> "store", lock |-> "expires"]
    /\ \E id \in DOMAIN entries :
           \A k \in DOMAIN expires : id \notin Range(expires[k])

====
